---- MODULE Spec2Model ----
(***************************************************************************)
(* A model of ge-track: the suggestion engine (suggest.py), the two        *)
(* purchase-window accountants (limits.py, flipper2_adapter.py) and the    *)
(* callers' choice of accountant (flip_cli.py, tui.py).                    *)
(*                                                                         *)
(* Numbers.  Money, quantities and volumes are Python ints and are ints    *)
(* here.  The float parameters are drawn from dyadic fractions, for which  *)
(* the float arithmetic of the source is exact, and are held as integer    *)
(* numerators: aggressiveness and liquidity_fraction in quarters,          *)
(* max_fill_hours in halves, min_unit_roi in eighths.  The float results   *)
(* (unit_roi, the fill hours, profit_per_hour_gp) are held as exact        *)
(* fractions [num, den] with den > 0 and are compared by cross             *)
(* multiplication.  int(x * 0.02) equals x \div 50 for every price in the  *)
(* model's range.                                                          *)
(*                                                                         *)
(* Time.  The engine's clock, now, counts seconds.  The accountants'        *)
(* clock, wall, counts hours since the epoch, so that a timestamp in        *)
(* milliseconds (1000 times the one in seconds) stays within TLC's          *)
(* integers: the window of 4 * 60 * 60 seconds is 4, and the 10**12 above   *)
(* which a timestamp is taken for milliseconds is 10**12 \div 3600.         *)
(* An Optional[int] that is None is the value None below; the real values  *)
(* are never negative.                                                     *)
(***************************************************************************)
EXTENDS Integers, Sequences, FiniteSets, TLC

\* ------------------------------------------------------------------ bounds
NumItems == 2      \* item identifiers are 1..NumItems
MaxTicks == 1      \* how often the wall clock advances during one run
TickSec == 400     \* seconds the wall clock advances by in one step
MaxCap == 2        \* purchase caps and remaining allowances are 0..MaxCap
StartTime == 2000  \* the engine's clock when the model starts
StartHour == 490000 \* the accountants' clock when the model starts
MaxEvents == 2     \* how many events the local log is let to hold
TickHours == 5     \* hours the accountants' clock advances by in one step
MaxPrice == 12     \* largest price in the calls of the price adjustment
MaxAlerts == 2     \* how many alerts the table is let to hold
MaxRuns == 2       \* how many times the alert job runs

\* ------------------------------------------------------- program constants
GE_TAX_CAP == 5000000
FOUR_HOURS_SEC == 4
TS_MS_THRESHOLD == 277777777
MS_PER_SEC == 1000

None == -1

Items == 1..NumItems

Max(a, b) == IF a >= b THEN a ELSE b
Min(a, b) == IF a <= b THEN a ELSE b

\* An exact fraction num/den, den > 0.
Frac(n, d) == [num |-> n, den |-> d]
FracLess(a, b) == a.num * b.den < b.num * a.den
FracEq(a, b) == a.num * b.den = b.num * a.den
FracLeq(a, b) == a.num * b.den <= b.num * a.den

VARIABLES
  budget_gp,          \* build_suggestions' arguments
  mapping,
  latest,
  one_hour,
  args,               \* the scalar filter arguments, one field each
  remaining_limits,
  include_item_ids,   \* [given |-> FALSE] or [given |-> TRUE, ids |-> set]
  universe,           \* the order in which the for loop visits the items
  idx,                \* position of the for loop in universe
  pc,                 \* "loop" | "choose" | "done"
  results,            \* the local list results
  returned,           \* the value build_suggestions returned
  now,                \* the wall clock, time.time()
  now0,               \* the wall clock when the first invocation started
  invocation,         \* 1 or 2: which invocation on these inputs this is
  firstReturned,      \* what invocation 1 returned
  wall,               \* the wall clock as the accountants read it
  limits_file,        \* the local log: [exists, events], events as saved
  flipper2_dir,       \* the export: [exists, buys, flips], the files' entries
  fu_path,            \* whether a Flipping Utilities path is given or found
  selection,          \* how the caller's choice of accountant ended
  raised,             \* the exception the last call of append_event raised, or "none"
  call,               \* a function called on its own: its name and arguments
  result,             \* what that call returned; <<"pending">> before it returns
  tui_args,           \* tui.py's options: [top, auto_add, auto_add_top, max_watch]
  tui_pc,             \* "start" | "live" | "ended": where tui.py's main is
  watch_ids,          \* tui.py's list watch_ids
  prev,               \* the keys of tui.py's dict prev
  procs,              \* the processes running append_event: [pc, state, raised] each
  alerts,             \* the rows of the web application's table alert, by id
  web_runs            \* how many times check_alerts_job has run

engineVars == <<budget_gp, mapping, latest, one_hour, args, remaining_limits,
                include_item_ids, universe, idx, pc, results, returned, now,
                now0, invocation, firstReturned>>

acctVars == <<wall, limits_file, flipper2_dir, fu_path, selection, raised>>

fnVars == <<call, result>>

tuiVars == <<tui_args, tui_pc, watch_ids, prev>>

raceVars == <<procs>>

webVars == <<alerts, web_runs>>

appVars == <<tuiVars, raceVars, webVars>>

vars == <<engineVars, acctVars, fnVars, appVars>>

\* ------------------------------------------------------------- suggest.py

\* The 2% tax of line 53: int(unit_sell_price * GE_TAX_RATE), capped.
UntaxedSale(unit_sell_price) == 0

UncappedTax(unit_sell_price) == unit_sell_price \div 50

TaxRoundedUp(unit_sell_price) == Min((unit_sell_price + 49) \div 50, GE_TAX_CAP)

_compute_tax_per_unit(unit_sell_price) ==
  Min(unit_sell_price \div 50, GE_TAX_CAP)

\* max(0.0, min(1.0, x)) for x in quarters.
Unclamped(x4) == x4

Clamp01(x4) == Max(0, Min(4, x4))

\* int(spread * 0.25 * clamp(aggressiveness)), aggressiveness in quarters.
PriceAdjust(spread, aggressiveness) ==
  (spread * Clamp01(aggressiveness)) \div 16

_adjust_prices_for_aggressiveness(base_buy, base_sell, aggressiveness) ==
  IF base_buy <= 0 \/ base_sell <= 0 \/ base_sell <= base_buy
  THEN <<base_buy, base_sell>>
  ELSE LET spread == base_sell - base_buy
           adj_buy == base_buy + PriceAdjust(spread, aggressiveness)
           adj_sell == base_sell - PriceAdjust(spread, aggressiveness)
       IN  IF adj_sell <= adj_buy THEN <<base_buy, base_sell>>
           ELSE <<adj_buy, adj_sell>>

\* __five_min_data__ is set nowhere in the repository: globals().get gives None.
five_min == [i \in {} |-> 0]

\* int(x or 0): a field that is absent or null counts as 0.
OrZero(x) == IF x = None THEN 0 ELSE x

NoVolumes(item_id, lh_feed) == <<0, 0>>

\* The volumes borrowed from the windowed record, zero when it is absent.
BorrowedVolumes(item_id, lh_feed) ==
  IF item_id \in DOMAIN lh_feed
  THEN <<OrZero(lh_feed[item_id].lowPriceVolume), OrZero(lh_feed[item_id].highPriceVolume)>>
  ELSE <<0, 0>>

LatestIsRecentOnOneSide(item_id, lt_feed, latest_max_age_min, t) ==
  /\ item_id \in DOMAIN lt_feed
  /\ lt_feed[item_id].highTime # None
  /\ lt_feed[item_id].lowTime # None
  /\ \/ (t - lt_feed[item_id].highTime) <= 60 * latest_max_age_min
     \/ (t - lt_feed[item_id].lowTime) <= 60 * latest_max_age_min

\* Lines 80-85: the instantaneous record has both timestamps and both are at
\* most latest_max_age_min minutes old.
LatestIsRecent(item_id, lt_feed, latest_max_age_min, t) ==
  /\ item_id \in DOMAIN lt_feed
  /\ lt_feed[item_id].highTime # None
  /\ lt_feed[item_id].lowTime # None
  /\ (t - lt_feed[item_id].highTime) <= 60 * latest_max_age_min
  /\ (t - lt_feed[item_id].lowTime) <= 60 * latest_max_age_min

\* Returns <<>> for None, else <<buy_price, sell_price, low_vol, high_vol>>.
\* t is the value of time.time() read on line 82.
_choose_prices_for_item(item_id, lt_feed, lh_feed, fm_feed, price_source, latest_max_age_min, t) ==
  LET has_lh == item_id \in DOMAIN lh_feed
      has_lt == item_id \in DOMAIN lt_feed
      has_fm == item_id \in DOMAIN fm_feed
      vols == BorrowedVolumes(item_id, lh_feed)
      from_lh == <<OrZero(lh_feed[item_id].avgLowPrice), OrZero(lh_feed[item_id].avgHighPrice),
                   OrZero(lh_feed[item_id].lowPriceVolume),
                   OrZero(lh_feed[item_id].highPriceVolume)>>
      from_lt == <<OrZero(lt_feed[item_id].low), OrZero(lt_feed[item_id].high),
                   vols[1], vols[2]>>
  IN  IF price_source = "1h"
      THEN IF ~has_lh THEN <<>> ELSE from_lh
      ELSE IF price_source = "latest"
      THEN IF ~has_lt THEN <<>> ELSE from_lt
      ELSE IF LatestIsRecent(item_id, lt_feed, latest_max_age_min, t)
      THEN from_lt
      ELSE IF has_fm
      THEN <<OrZero(fm_feed[item_id].avgLowPrice), OrZero(fm_feed[item_id].avgHighPrice),
             vols[1], vols[2]>>
      ELSE IF has_lh THEN from_lh
      ELSE <<>>

AlwaysFresh(item_id, lt_feed, fresh_minutes, policy, t) == TRUE

\* t is the value of time.time() read on line 108.
_is_fresh_enough(item_id, lt_feed, fresh_minutes, policy, t) ==
  IF fresh_minutes <= 0 THEN TRUE
  ELSE IF item_id \notin DOMAIN lt_feed THEN FALSE
  ELSE LET high_time == lt_feed[item_id].highTime
           low_time == lt_feed[item_id].lowTime
           high_ok == high_time # None /\ (t - high_time) <= fresh_minutes * 60
           low_ok == low_time # None /\ (t - low_time) <= fresh_minutes * 60
       IN  IF high_time = None /\ low_time = None THEN FALSE
           ELSE IF policy = "any" THEN (high_ok \/ low_ok)
           ELSE (high_ok /\ low_ok)

\* Line 161-164: the resolved prices must be positive and in profitable order.
PricesUsable(base_buy, base_sell) ==
  ~(base_buy <= 0 \/ base_sell <= 0) /\ ~(base_sell <= base_buy)

\* VolumeOk with the floor applied to the stronger side only.
VolumeOkEitherSide(low_vol, high_vol, min_hourly_volume) ==
  ~(Max(low_vol, high_vol) < Max(0, min_hourly_volume))

\* Line 167: both sides must reach the volume floor.
VolumeOk(low_vol, high_vol, min_hourly_volume) ==
  ~(Min(low_vol, high_vol) < Max(0, min_hourly_volume))

\* Lines 173-174: max(1, int(vol * clamp(liquidity_fraction))), in quarters.
CapacityPerHour(vol, liquidity_fraction) ==
  Max(1, (vol * Clamp01(liquidity_fraction)) \div 4)

\* MaxByBudget with the division rounded up.
MaxByBudgetRoundedUp(budget, buy_price) == (budget + buy_price - 1) \div buy_price

\* Line 181: budget_gp // buy_price, on the adjusted buy price.
MaxByBudget(budget, buy_price) == budget \div buy_price

\* Lines 177-178: item.buy_limit if item else None.
BuyLimitOf(item_id, catalog) ==
  IF item_id \in DOMAIN catalog THEN catalog[item_id].buy_limit ELSE None

\* Lines 185-187.
QuantityAfterLimit(quantity, buy_limit) ==
  IF buy_limit # None THEN Min(quantity, buy_limit) ELSE quantity

\* Lines 190-192: rem, None when no allowance was supplied for the item.
RemainingOf(item_id, rl) ==
  IF item_id \in DOMAIN rl THEN Max(0, rl[item_id]) ELSE None

\* QuantityAfterRemaining with the allowance not applied.
QuantityIgnoringRemaining(quantity, rem) == quantity

\* Line 193.
QuantityAfterRemaining(quantity, rem) ==
  IF rem # None THEN Min(quantity, rem) ELSE quantity

\* MaxQtyByTime floored at one unit, as the liquidity capacities are.
MaxQtyByTimeAtLeastOne(vol, max_fill_hours) == Max(1, (vol * Max(0, max_fill_hours)) \div 2)

\* MaxQtyByTime with the volume of two hours for each hour allowed.
MaxQtyByTimeDoubled(vol, max_fill_hours) == vol * Max(0, max_fill_hours)

\* Lines 201-202: int(vol * max(0.0, max_fill_hours)), max_fill_hours in halves.
MaxQtyByTime(vol, max_fill_hours) == (vol * Max(0, max_fill_hours)) \div 2

\* Line 218: the profit and ROI floors; min_unit_roi in eighths.
PassesFloors(unit_profit, buy_price, min_unit_profit_gp, min_unit_roi) ==
  ~(unit_profit < min_unit_profit_gp \/ unit_profit * 8 < min_unit_roi * buy_price)

\* Lines 209-246: the profit figures and the Suggestion, for a quantity >= 1.
MakeSuggestion(item_id, buy_limit, rem, buy_price, sell_price, quantity, low_vol, high_vol) ==
  LET unit_tax == _compute_tax_per_unit(sell_price)
      total_sale_value == sell_price * quantity
      total_tax == unit_tax * quantity
      total_buy_cost == buy_price * quantity
      total_profit == (total_sale_value - total_tax) - total_buy_cost
      unit_profit == total_profit \div Max(1, quantity)
      lv == Max(1, low_vol)
      hv == Max(1, high_vol)
      \* expected_fill_hours = quantity/lv + quantity/hv
      efh == Frac(quantity * (lv + hv), lv * hv)
  IN  [ item_id |-> item_id,
        buy_limit |-> buy_limit,
        buy_price_gp |-> buy_price,
        sell_price_gp |-> sell_price,
        unit_profit_gp |-> unit_profit,
        unit_roi |-> Frac(unit_profit, buy_price),
        quantity |-> quantity,
        total_profit_gp |-> total_profit,
        hourly_volume |-> Min(low_vol, high_vol),
        expected_fill_hours |-> efh,
        profit_per_hour_gp |->
          IF efh.num > 0 THEN Frac(total_profit * efh.den, efh.num)
          ELSE Frac(total_profit, 1),
        buy_hourly_volume |-> low_vol,
        sell_hourly_volume |-> high_vol,
        buy_fill_hours |-> Frac(quantity, lv),
        sell_fill_hours |-> Frac(quantity, hv),
        remaining_limit |-> rem ]

\* Lines 159-246 for one item whose prices were chosen: <<>> when the item is
\* excluded (a continue), else the one Suggestion appended to results.
ItemSuggestion(item_id, chosen, budget, catalog, rl, a) ==
  LET base_buy == chosen[1]
      base_sell == chosen[2]
      low_vol == chosen[3]
      high_vol == chosen[4]
      adj == _adjust_prices_for_aggressiveness(base_buy, base_sell, a.aggressiveness)
      buy_price == adj[1]
      sell_price == adj[2]
      buy_capacity_per_hour == CapacityPerHour(low_vol, a.liquidity_fraction)
      sell_capacity_per_hour == CapacityPerHour(high_vol, a.liquidity_fraction)
      buy_limit == BuyLimitOf(item_id, catalog)
      max_by_budget == MaxByBudget(budget, buy_price)
      rem == RemainingOf(item_id, rl)
      q1 == QuantityAfterRemaining(QuantityAfterLimit(max_by_budget, buy_limit), rem)
      q2 == Min(q1, Min(buy_capacity_per_hour, sell_capacity_per_hour))
      max_qty_by_buy_time == MaxQtyByTime(low_vol, a.max_fill_hours)
      max_qty_by_sell_time == MaxQtyByTime(high_vol, a.max_fill_hours)
      quantity == Min(q2, Min(max_qty_by_buy_time, max_qty_by_sell_time))
      s == MakeSuggestion(item_id, buy_limit, rem, buy_price, sell_price, quantity, low_vol, high_vol)
  IN  IF ~PricesUsable(base_buy, base_sell) THEN <<>>
      ELSE IF ~VolumeOk(low_vol, high_vol, a.min_hourly_volume) THEN <<>>
      ELSE IF max_by_budget <= 0 THEN <<>>
      ELSE IF q2 <= 0 THEN <<>>
      ELSE IF max_qty_by_buy_time <= 0 \/ max_qty_by_sell_time <= 0 THEN <<>>
      ELSE IF quantity <= 0 THEN <<>>
      ELSE IF ~PassesFloors(s.unit_profit_gp, buy_price, a.min_unit_profit_gp, a.min_unit_roi) THEN <<>>
      ELSE <<s>>

\* The sort key of line 249, compared as Python compares tuples.
KeyGreater(a, b) ==
  \/ FracLess(b.profit_per_hour_gp, a.profit_per_hour_gp)
  \/ /\ FracEq(a.profit_per_hour_gp, b.profit_per_hour_gp)
     /\ \/ a.total_profit_gp > b.total_profit_gp
        \/ /\ a.total_profit_gp = b.total_profit_gp
           /\ FracLess(b.unit_roi, a.unit_roi)

KeyEqual(a, b) == ~KeyGreater(a, b) /\ ~KeyGreater(b, a)

\* GoesBefore of a sort without reverse=True.
GoesBeforeAscending(x, y) == KeyGreater(y, x)

\* Whether x goes before y in the sorted list when x came after y in the input.
GoesBefore(x, y) == KeyGreater(x, y)

\* list.sort(key=..., reverse=True) is stable: among equal keys the input order
\* is kept.  InsertDesc puts x, which came after all of sorted, behind every
\* element that does not go after it.
RECURSIVE InsertDesc(_, _)
InsertDesc(sorted, x) ==
  IF sorted = <<>> THEN <<x>>
  ELSE IF GoesBefore(x, sorted[Len(sorted)])
       THEN Append(InsertDesc(SubSeq(sorted, 1, Len(sorted) - 1), x), sorted[Len(sorted)])
       ELSE Append(sorted, x)

RECURSIVE SortDesc(_)
SortDesc(seq) ==
  IF seq = <<>> THEN <<>>
  ELSE InsertDesc(SortDesc(SubSeq(seq, 1, Len(seq) - 1)), seq[Len(seq)])

\* Line 251: results[: max(1, top_n)].
Truncate(seq, top_n) == SubSeq(seq, 1, Min(Len(seq), Max(1, top_n)))

\* Lines 139-142: the set the for loop runs over.
UniverseIgnoringInclude(lh_feed, lt_feed, include) == DOMAIN lh_feed \cup DOMAIN lt_feed

UniverseSet(lh_feed, lt_feed, include) ==
  LET keys == DOMAIN lh_feed \cup DOMAIN lt_feed
  IN  IF include.given THEN {iid \in keys : iid \in include.ids} ELSE keys

\* All orders in which a set can be iterated.
Orderings(S) ==
  {f \in [1..Cardinality(S) -> S] : \A i, j \in 1..Cardinality(S) : i # j => f[i] # f[j]}

\* ------------------------------------------------------ the engine's inputs
LatestRec(lo, hi, lt, ht) == [low |-> lo, high |-> hi, lowTime |-> lt, highTime |-> ht]
HourRec(al, ah, lv, hv) ==
  [avgLowPrice |-> al, avgHighPrice |-> ah, lowPriceVolume |-> lv, highPriceVolume |-> hv]
WikiItem(limit) == [buy_limit |-> limit]

\* Timestamps of the instantaneous feed: 5 and 25 minutes before the start.
Fresh == StartTime - 300
Stale == StartTime - 1500

Arguments(roi, profit, agg, liq, mhv, mfh, src, age, fm, pol, top) ==
  [min_unit_roi |-> roi, min_unit_profit_gp |-> profit, aggressiveness |-> agg,
   liquidity_fraction |-> liq, min_hourly_volume |-> mhv, max_fill_hours |-> mfh,
   price_source |-> src, latest_max_age_min |-> age, fresh_minutes |-> fm,
   fresh_policy |-> pol, top_n |-> top]

\* The two processes that run append_event side by side.
Procs == {1, 2}

\* The terminal view, the recording processes and the web application before
\* any of them is started.
TuiIdle ==
  /\ tui_args = [top |-> 0, auto_add |-> FALSE, auto_add_top |-> 0, max_watch |-> 0]
  /\ tui_pc = "none"
  /\ watch_ids = <<>>
  /\ prev = {}

RaceIdle == procs = [p \in Procs |-> [pc |-> "none", state |-> <<>>, raised |-> "none"]]

WebIdle == alerts = <<>> /\ web_runs = 0

AppsIdle == TuiIdle /\ RaceIdle /\ WebIdle

\* The state in which the first invocation starts, the inputs being chosen.
Started ==
  /\ AppsIdle
  /\ universe \in Orderings(UniverseSet(one_hour, latest, include_item_ids))
  /\ idx = 1
  /\ pc = "loop"
  /\ results = <<>>
  /\ returned = <<>>
  /\ now = StartTime
  /\ now0 = StartTime
  /\ invocation = 1
  /\ firstReturned = <<>>
  /\ wall = StartHour
  /\ limits_file = [exists |-> FALSE, events |-> <<>>]
  /\ flipper2_dir = [exists |-> FALSE, buys |-> <<>>, flips |-> <<>>]
  /\ fu_path = FALSE
  /\ selection = [caller |-> "none", source |-> "none"]
  /\ raised = "none"
  /\ call = [fn |-> "none"]
  /\ result = <<"pending">>

\* One item; every way the two feeds, the price source and the freshness
\* filter can resolve its prices.  The quantity filters are loose.
InitFeeds ==
  /\ latest \in {<<>>} \cup
       {(1 :> LatestRec(p[1], p[2], t[1], t[2])) :
          p \in {<<100, 120>>, <<120, 100>>, <<0, 120>>},
          t \in {<<Fresh, Fresh>>, <<Fresh, Stale>>, <<None, Fresh>>, <<None, None>>}}
  /\ one_hour \in {<<>>} \cup
       {(1 :> HourRec(p[1], p[2], v[1], v[2])) :
          p \in {<<90, 150>>, <<150, 90>>}, v \in {<<4, 8>>, <<0, 8>>}}
  /\ mapping \in {<<>>, (1 :> WikiItem(None))}
  /\ remaining_limits = <<>>
  /\ budget_gp = 1000
  /\ include_item_ids \in {[given |-> FALSE, ids |-> {}], [given |-> TRUE, ids |-> {1}],
                           [given |-> TRUE, ids |-> {}]}
  /\ args \in {Arguments(0, 0, agg, 4, 0, 20, src, 20, fm, pol, 10) :
                 agg \in {0, 4}, src \in {"latest", "1h", "hybrid"},
                 fm \in {0, 10}, pol \in {"any", "both"}}
  /\ Started

\* One item whose prices come from a fresh instantaneous record; every
\* combination of budget, cap, allowance, volumes and quantity filters.
InitQuantities ==
  /\ latest \in {(1 :> LatestRec(p[1], p[2], Fresh, Fresh)) : p \in {<<100, 120>>, <<100, 101>>, <<100, 160>>}}
  /\ one_hour \in {(1 :> HourRec(100, 120, v[1], v[2])) :
                     v \in {<<0, 8>>, <<4, 8>>, <<8, 8>>, <<8, 2>>}}
  /\ mapping \in {(1 :> WikiItem(c)) : c \in {None} \cup 0..MaxCap}
  /\ remaining_limits \in {<<>>} \cup {(1 :> r) : r \in 0..MaxCap}
  /\ budget_gp \in {0, 209, 1000}
  /\ include_item_ids = [given |-> FALSE, ids |-> {}]
  /\ args \in {Arguments(f[1], f[2], agg, liq, mhv, mfh, "latest", 20, 0, "both", 10) :
                 f \in {<<0, 0>>, <<1, 0>>, <<0, 10>>}, agg \in {0, 4, 6},
                 liq \in {1, 4}, mhv \in {0, 4}, mfh \in {1, 20}}
  /\ Started

\* Several items, some with equal records and so with equal sort keys, in
\* every iteration order, and every truncation.
InitRanking ==
  /\ latest \in [Items -> {LatestRec(100, 120, Fresh, Fresh), LatestRec(100, 140, Fresh, Fresh),
                           LatestRec(100, 120, Stale, Stale)}]
  /\ one_hour \in [Items -> {HourRec(100, 130, 4, 8), HourRec(100, 130, 8, 8)}]
  /\ mapping = <<>>
  /\ remaining_limits = <<>>
  /\ budget_gp = 1000
  /\ include_item_ids \in {[given |-> FALSE, ids |-> {}], [given |-> TRUE, ids |-> Items \ {2}]}
  /\ args \in {Arguments(0, 0, 0, 4, 0, 20, src, 20, 10, "both", top) :
                 src \in {"latest", "hybrid"}, top \in 0..NumItems}
  /\ Started

\* One capped item traded in volume, its instantaneous record stamped with
\* the time of the call: the quantity is set by the cap.
InitEndToEnd ==
  /\ latest = (1 :> LatestRec(100, 120, StartTime, StartTime))
  /\ one_hour \in {(1 :> HourRec(p[1], p[2], 1000, 1000)) : p \in {<<100, 120>>, <<90, 150>>}}
  /\ mapping = (1 :> WikiItem(50))
  /\ remaining_limits = <<>>
  /\ budget_gp = 10000
  /\ include_item_ids = [given |-> FALSE, ids |-> {}]
  /\ args \in {Arguments(0, 0, 0, 4, 0, 20, "latest", age, fm, pol, 10) :
                 age \in {0, 20}, fm \in {0, 10}, pol \in {"any", "both"}}
  /\ Started

\* One item dear enough for 2% of its sell price to exceed the tax cap; the
\* budget buys one unit.
InitTaxCap ==
  /\ latest \in {(1 :> LatestRec(200000000, p, Fresh, Fresh)) : p \in {249999999, 250000049, 300000000}}
  /\ one_hour = (1 :> HourRec(200000000, 300000000, 1, 1))
  /\ mapping \in {<<>>, (1 :> WikiItem(MaxCap))}
  /\ remaining_limits = <<>>
  /\ budget_gp \in {200000000, 400000000}
  /\ include_item_ids = [given |-> FALSE, ids |-> {}]
  /\ args \in {Arguments(0, profit, 0, 4, 0, 20, "latest", 20, 0, "both", 10) : profit \in {0, 50000000}}
  /\ Started

InitEngine == InitFeeds \/ InitQuantities \/ InitRanking \/ InitEndToEnd \/ InitTaxCap

\* ------------------------------------------------- build_suggestions, steps

\* Lines 144-147: the loop takes the next item and applies the freshness filter.
FreshnessStep ==
  /\ pc = "loop"
  /\ idx <= Len(universe)
  /\ IF _is_fresh_enough(universe[idx], latest, args.fresh_minutes, args.fresh_policy, now)
     THEN pc' = "choose" /\ idx' = idx
     ELSE pc' = "loop" /\ idx' = idx + 1
  /\ UNCHANGED <<budget_gp, mapping, latest, one_hour, args, remaining_limits,
                 include_item_ids, universe, results, returned, now, now0,
                 invocation, firstReturned>>
  /\ UNCHANGED <<acctVars, fnVars, appVars>>

\* Lines 149-246: the prices are chosen and the item is excluded or appended.
ChooseStep ==
  /\ pc = "choose"
  /\ LET item_id == universe[idx]
         chosen == _choose_prices_for_item(item_id, latest, one_hour, five_min, args.price_source, args.latest_max_age_min, now)
     IN  results' = IF chosen = <<>> THEN results
                    ELSE results \o ItemSuggestion(item_id, chosen, budget_gp, mapping, remaining_limits, args)
  /\ idx' = idx + 1
  /\ pc' = "loop"
  /\ UNCHANGED <<budget_gp, mapping, latest, one_hour, args, remaining_limits,
                 include_item_ids, universe, returned, now, now0, invocation,
                 firstReturned>>
  /\ UNCHANGED <<acctVars, fnVars, appVars>>

\* Lines 249-251: the loop is over; sort in place, return the first top_n.
ReturnStep ==
  /\ pc = "loop"
  /\ idx > Len(universe)
  /\ results' = SortDesc(results)
  /\ returned' = Truncate(SortDesc(results), args.top_n)
  /\ pc' = "done"
  /\ UNCHANGED <<budget_gp, mapping, latest, one_hour, args, remaining_limits,
                 include_item_ids, universe, idx, now, now0, invocation,
                 firstReturned>>
  /\ UNCHANGED <<acctVars, fnVars, appVars>>

\* NewResults of a list shared between invocations (a mutable default).
SharedResults == results

\* Line 134: the list a new invocation starts from.
NewResults == <<>>

\* The caller invokes build_suggestions again on the same inputs.
InvokeAgain ==
  /\ pc = "done"
  /\ invocation = 1
  /\ firstReturned' = returned
  /\ invocation' = 2
  /\ results' = NewResults
  /\ returned' = <<>>
  /\ idx' = 1
  /\ pc' = "loop"
  /\ UNCHANGED <<budget_gp, mapping, latest, one_hour, args, remaining_limits,
                 include_item_ids, universe, now, now0>>
  /\ UNCHANGED <<acctVars, fnVars, appVars>>

\* The wall clock advances while the engine runs or between two invocations.
Tick ==
  /\ now < now0 + MaxTicks * TickSec
  /\ invocation = 1 \/ pc # "done"
  /\ now' = now + TickSec
  /\ UNCHANGED <<budget_gp, mapping, latest, one_hour, args, remaining_limits,
                 include_item_ids, universe, idx, pc, results, returned, now0,
                 invocation, firstReturned>>
  /\ UNCHANGED <<acctVars, fnVars, appVars>>

NextEngine == FreshnessStep \/ ChooseStep \/ ReturnStep \/ InvokeAgain \/ Tick

SpecEngine == InitEngine /\ [][NextEngine]_vars

\* Lines 144-246 for one item, the clock reading t in both places.
ItemResult(item_id, t) ==
  IF ~_is_fresh_enough(item_id, latest, args.fresh_minutes, args.fresh_policy, t) THEN <<>>
  ELSE LET chosen == _choose_prices_for_item(item_id, latest, one_hour, five_min, args.price_source, args.latest_max_age_min, t)
       IN  IF chosen = <<>> THEN <<>>
           ELSE ItemSuggestion(item_id, chosen, budget_gp, mapping, remaining_limits, args)

RECURSIVE LoopResults(_, _)
LoopResults(order, t) ==
  IF order = <<>> THEN <<>>
  ELSE LoopResults(SubSeq(order, 1, Len(order) - 1), t) \o ItemResult(order[Len(order)], t)

\* build_suggestions as a whole, visiting the items in the given order, the
\* clock standing at t.
build_suggestions(order, t) == Truncate(SortDesc(LoopResults(order, t)), args.top_n)

\* ---------------------------------------------------------------- limits.py
LimitEvent(ts, item_id, type, qty) ==
  [ts |-> ts, item_id |-> item_id, type |-> type, qty |-> qty]

\* Lines 33-45: a record whose conversion raises is skipped.  int(None)
\* raises for a record without an item identifier.
Converts(e) == e.item_id # None

\* Lines 33-45: the records of the file that convert to a LimitEvent.
Converted(events) == SelectSeq(events, Converts)

\* load_state pruning at the accounting window instead of twice the window.
LoadStatePruningAtWindow(file, t) ==
  IF ~file.exists THEN <<>>
  ELSE SelectSeq(Converted(file.events), LAMBDA e : e.ts >= t - FOUR_HOURS_SEC)

\* Lines 26-49: the events of the file, those older than 8 hours pruned; no
\* events when the file does not exist.  t is time.time() of line 46.
load_state(file, t) ==
  IF ~file.exists THEN <<>>
  ELSE SelectSeq(Converted(file.events), LAMBDA e : e.ts >= t - (2 * FOUR_HOURS_SEC))

\* Line 95 as lines 91 and 93 let it be reached: what one event adds to
\* used[item_id].
UsedByEvent(e, item_id, cutoff) ==
  IF e.type # "buy" THEN 0
  ELSE IF e.ts < cutoff THEN 0
  ELSE IF e.item_id = item_id THEN Max(0, e.qty) ELSE 0

RECURSIVE UsedLocal(_, _, _)
UsedLocal(events, item_id, cutoff) ==
  IF events = <<>> THEN 0
  ELSE UsedByEvent(Head(events), item_id, cutoff) + UsedLocal(Tail(events), item_id, cutoff)

\* Lines 96-101 (and 120-125 of the adapter): one entry per item with a cap.
RemainingEntryUnclamped(limit, already) == limit - already

RemainingEntry(limit, already) == Max(0, limit - already)

Capped(buy_limits) == {i \in DOMAIN buy_limits : buy_limits[i] # None}

\* Lines 80-102.  t is time.time() of lines 46 and 86.
compute_remaining_limits(file, buy_limits, t) ==
  [i \in Capped(buy_limits) |->
     RemainingEntry(buy_limits[i], UsedLocal(load_state(file, t), i, t - FOUR_HOURS_SEC))]

\* ------------------------------------------------------- flipper2_adapter.py

\* An entry of an export file: the item identifier, timestamp and quantity
\* under whichever of their aliases the entry has them; None when it has none.
Entry(item_id, ts, quantity) == [itemId |-> item_id, ts |-> ts, quantity |-> quantity]

\* Lines 42-56.
_normalize_ts(ts) ==
  IF ts = None THEN 0
  ELSE IF ts > TS_MS_THRESHOLD THEN ts \div MS_PER_SEC ELSE ts

\* Lines 77-100, add_entry: what one entry adds to used[item_id].  The `or`
\* chains take a 0 for a missing value.
UsedByEntry(e, item_id, cutoff) ==
  IF e.itemId = None \/ e.itemId = 0 THEN 0
  ELSE IF _normalize_ts(IF e.ts = 0 THEN None ELSE e.ts) < cutoff THEN 0
  ELSE IF e.quantity # None /\ e.quantity > 0 /\ e.itemId = item_id THEN e.quantity
  ELSE 0

\* Lines 108-118: the entry of the flips file that counts as a buy, if any.
\* A flip holds a nested buy (form "nested") or is itself one side of a trade.
FlipCounts(f) == f.form = "nested" \/ f.side \in {"buy", "bought", "buying"}

\* The side of a flip when the record holds a value that is no string there.
NotAString == "<number>"

\* Line 116: .lower() of a side that is no string raises AttributeError, which
\* nothing catches.
FlipsRaise(flips) ==
  \E k \in 1..Len(flips) : flips[k].form # "nested" /\ flips[k].side = NotAString

\* How a call ends: with a value returned or with an exception raised.
Returns(v) == [raised |-> "none", value |-> v]
Raises(x) == [raised |-> x, value |-> <<>>]

RECURSIVE UsedExport(_, _, _, _)
UsedExport(buys, flips, item_id, cutoff) ==
  IF buys # <<>>
  THEN UsedByEntry(Head(buys), item_id, cutoff) + UsedExport(Tail(buys), flips, item_id, cutoff)
  ELSE IF flips # <<>>
  THEN (IF FlipCounts(Head(flips)) THEN UsedByEntry(Head(flips).e, item_id, cutoff) ELSE 0)
       + UsedExport(buys, Tail(flips), item_id, cutoff)
  ELSE 0

\* Lines 59-126.  t is time.time() of line 73.
compute_remaining_from_flipper2(dir, buy_limits, t) ==
  IF ~dir.exists THEN Returns(<<>>)
  ELSE IF FlipsRaise(dir.flips) THEN Raises("AttributeError")
  ELSE Returns([i \in Capped(buy_limits) |->
                  RemainingEntry(buy_limits[i],
                                 UsedExport(dir.buys, dir.flips, i, t - FOUR_HOURS_SEC))])

\* ------------------------------------------------------ flip_cli.py, tui.py

\* flip_cli.py line 231, tui.py line 166.
BuyLimits(catalog) == [i \in DOMAIN catalog |-> catalog[i].buy_limit]

\* flip_cli.py lines 234-238, tui.py lines 169-174 and 231-234: the export's
\* map, taken when the directory is found and the map is not empty.
Flipper2Call == compute_remaining_from_flipper2(flipper2_dir, BuyLimits(mapping), wall)
Flipper2Map == Flipper2Call.value
Flipper2Chosen == flipper2_dir.exists /\ DOMAIN Flipper2Map # {}

LocalMap == compute_remaining_limits(limits_file, BuyLimits(mapping), wall)

engineInputs == <<budget_gp, mapping, latest, one_hour, args, include_item_ids,
                  universe, idx, pc, results, returned, now, now0, invocation,
                  firstReturned>>

\* Lines 68-77: the log as append_event saves it.
Appended(item_id, qty, type, ts) ==
  [exists |-> TRUE,
   events |-> Append(load_state(limits_file, wall),
                     LimitEvent(IF ts # None THEN ts ELSE wall, item_id, type, qty))]

AppendEventValidatingLast(item_id, qty, type, ts) ==
  /\ Len(load_state(limits_file, wall)) < MaxEvents
  /\ limits_file' = Appended(item_id, qty, type, ts)
  /\ raised' = IF type \notin {"buy", "sell"} THEN "ValueError" ELSE "none"
  /\ UNCHANGED <<wall, flipper2_dir, fu_path, selection, remaining_limits, engineInputs, fnVars, appVars>>

\* limits.py lines 65-77, append_event; ts = None is the default, the time of
\* the call.  A type other than 'buy' and 'sell' raises ValueError on line 67.
AppendEvent(item_id, qty, type, ts) ==
  /\ IF type \notin {"buy", "sell"}
     THEN /\ raised' = "ValueError"
          /\ UNCHANGED limits_file
     ELSE /\ Len(load_state(limits_file, wall)) < MaxEvents
          /\ limits_file' = Appended(item_id, qty, type, ts)
          /\ raised' = "none"
  /\ UNCHANGED <<wall, flipper2_dir, fu_path, selection, remaining_limits, engineInputs, fnVars, appVars>>

\* flip_cli.py lines 230-246.  compute_remaining_from_flipping_utilities is
\* neither defined nor imported in flip_cli.py: reaching line 243 raises
\* NameError and main ends without a map.
SelectCli ==
  /\ IF Flipper2Call.raised # "none"
     THEN selection' = [caller |-> "cli", source |-> Flipper2Call.raised] /\ remaining_limits' = <<>>
     ELSE IF Flipper2Chosen
     THEN selection' = [caller |-> "cli", source |-> "flipper2"] /\ remaining_limits' = Flipper2Map
     ELSE IF fu_path
     THEN selection' = [caller |-> "cli", source |-> "NameError"] /\ remaining_limits' = <<>>
     ELSE selection' = [caller |-> "cli", source |-> "local"] /\ remaining_limits' = LocalMap
  /\ UNCHANGED <<wall, limits_file, flipper2_dir, fu_path, raised, engineInputs, fnVars, appVars>>

\* tui.py lines 168-182 and, on every refresh, lines 229-238: with or without
\* a Flipping Utilities path the fallback is the local log.
TuiSelect ==
  IF Flipper2Call.raised # "none"
  THEN selection' = [caller |-> "tui", source |-> Flipper2Call.raised] /\ remaining_limits' = <<>>
  ELSE IF Flipper2Chosen
  THEN selection' = [caller |-> "tui", source |-> "flipper2"] /\ remaining_limits' = Flipper2Map
  ELSE selection' = [caller |-> "tui", source |-> "local"] /\ remaining_limits' = LocalMap

SelectTui ==
  /\ TuiSelect
  /\ UNCHANGED <<wall, limits_file, flipper2_dir, fu_path, raised, engineInputs, fnVars, appVars>>

\* The wall clock advances.
WallTick ==
  /\ wall < StartHour + MaxTicks * TickHours
  /\ wall' = wall + TickHours
  /\ UNCHANGED <<limits_file, flipper2_dir, fu_path, selection, raised, remaining_limits, engineInputs, fnVars, appVars>>

\* Timestamps an event can carry: now and five hours ago, in seconds and in
\* milliseconds.
Recent == StartHour
Old == StartHour - (FOUR_HOURS_SEC + 1)

\* The calls of append_event: argument tuples <<item_id, qty, type, ts>>.
AppendCalls ==
  {<<1, q, "buy", None>> : q \in {-1, 1, 2}}
    \cup {<<1, 1, "buy", t>> : t \in {Old, Old * MS_PER_SEC}}
    \cup {<<2, 1, "buy", None>>, <<1, 1, "sell", None>>, <<1, 1, "refund", None>>}

\* The export directories the third-party plugin may have left.
Flipper2Dirs ==
  {[exists |-> FALSE, buys |-> <<>>, flips |-> <<>>],
   [exists |-> TRUE, buys |-> <<>>, flips |-> <<>>]}
  \cup {[exists |-> TRUE, buys |-> <<e>>, flips |-> <<>>] :
          e \in {Entry(1, Recent, 1), Entry(1, Recent * MS_PER_SEC, 2), Entry(1, Old, 1),
                 Entry(1, Old * MS_PER_SEC, 1), Entry(1, Recent, -1), Entry(2, Recent, 1)}}
  \cup {[exists |-> TRUE, buys |-> <<>>, flips |-> <<f>>] :
          f \in {[form |-> "nested", side |-> "none", e |-> Entry(1, Recent, 1)],
                 [form |-> "flat", side |-> "buy", e |-> Entry(1, Recent, 1)],
                 [form |-> "flat", side |-> "sell", e |-> Entry(1, Recent, 1)]}}
  \cup {[exists |-> TRUE, buys |-> <<Entry(None, Recent, 1), Entry(1, Recent, 1)>>, flips |-> <<>>],
        [exists |-> TRUE, buys |-> <<Entry(1, Recent, 1)>>,
         flips |-> <<[form |-> "flat", side |-> NotAString, e |-> Entry(1, Recent, 1)]>>]}

\* The local log as it may be found: missing, or holding a record without an
\* item identifier.
LimitsFiles ==
  {[exists |-> FALSE, events |-> <<>>],
   [exists |-> TRUE, events |-> <<LimitEvent(Recent, None, "buy", 1)>>]}

InitAcct ==
  /\ AppsIdle
  /\ wall = StartHour
  /\ limits_file \in LimitsFiles
  /\ flipper2_dir \in Flipper2Dirs
  /\ fu_path \in BOOLEAN
  /\ selection = [caller |-> "none", source |-> "none"]
  /\ raised = "none"
  /\ call = [fn |-> "none"]
  /\ result = <<"pending">>
  /\ mapping \in {<<>>,
                  [i \in Items |-> WikiItem(IF i = 1 THEN MaxCap ELSE None)],
                  [i \in Items |-> WikiItem(IF i = 1 THEN None ELSE 1)]}
  /\ remaining_limits = <<>>
  /\ budget_gp = 0
  /\ latest = <<>>
  /\ one_hour = <<>>
  /\ args = Arguments(0, 0, 0, 4, 0, 20, "latest", 20, 0, "both", 10)
  /\ include_item_ids = [given |-> FALSE, ids |-> {}]
  /\ universe = <<>>
  /\ idx = 1
  /\ pc = "idle"
  /\ results = <<>>
  /\ returned = <<>>
  /\ now = StartTime
  /\ now0 = StartTime
  /\ invocation = 1
  /\ firstReturned = <<>>

NextAcct ==
  \/ \E c \in AppendCalls : AppendEvent(c[1], c[2], c[3], c[4])
  \/ SelectCli
  \/ SelectTui
  \/ WallTick

SpecAcct == InitAcct /\ [][NextAcct]_vars

\* ------------------------------------------- suggest.py, functions on their own

\* Calls of _adjust_prices_for_aggressiveness: prices, and aggressiveness in
\* quarters from below 0 to above 1.
AdjustCalls ==
  {[fn |-> "_adjust_prices_for_aggressiveness", base_buy |-> p[1], base_sell |-> p[2], aggressiveness |-> g] :
     p \in ((0..3) \X (0..MaxPrice)) \cup {<<100, 101>>, <<100, 160>>}, g \in -1..5}

\* Calls of _choose_prices_for_item for item 1 at time StartTime: each feed
\* without the item or with a record of it, a field of which may be null;
\* timestamps now, 20 minutes old, a second older than that, and null.
ChooseCalls ==
  {[fn |-> "_choose_prices_for_item", item_id |-> 1, latest |-> lt, one_hour |-> lh,
    price_source |-> src, latest_max_age_min |-> age, t |-> StartTime] :
     lt \in {<<>>} \cup
           {(1 :> LatestRec(lo, 120, lot, hit)) :
              lo \in {100, None},
              lot \in {StartTime, StartTime - 1200, StartTime - 1201, None},
              hit \in {StartTime, StartTime - 1200, StartTime - 1201, None}},
     lh \in {<<>>} \cup
           {(1 :> HourRec(al, 150, lv, 8)) : al \in {90, None}, lv \in {4, None}},
     src \in {"1h", "latest", "hybrid"},
     age \in {0, 20}}

FnCalls == AdjustCalls \cup ChooseCalls

\* Neither the engine nor an accountant is running.
EngineIdle ==
  /\ budget_gp = 0
  /\ mapping = <<>>
  /\ latest = <<>>
  /\ one_hour = <<>>
  /\ args = Arguments(0, 0, 0, 4, 0, 20, "latest", 20, 0, "both", 10)
  /\ remaining_limits = <<>>
  /\ include_item_ids = [given |-> FALSE, ids |-> {}]
  /\ universe = <<>>
  /\ idx = 1
  /\ pc = "idle"
  /\ results = <<>>
  /\ returned = <<>>
  /\ now = StartTime
  /\ now0 = StartTime
  /\ invocation = 1
  /\ firstReturned = <<>>

AcctIdle ==
  /\ wall = StartHour
  /\ limits_file = [exists |-> FALSE, events |-> <<>>]
  /\ flipper2_dir = [exists |-> FALSE, buys |-> <<>>, flips |-> <<>>]
  /\ fu_path = FALSE
  /\ selection = [caller |-> "none", source |-> "none"]
  /\ raised = "none"

Idle == AppsIdle /\ EngineIdle /\ AcctIdle

InitFn ==
  /\ call \in FnCalls
  /\ result = <<"pending">>
  /\ Idle

\* suggest.py lines 36-49: the call returns.
AdjustReturns ==
  /\ call.fn = "_adjust_prices_for_aggressiveness"
  /\ result = <<"pending">>
  /\ result' = _adjust_prices_for_aggressiveness(call.base_buy, call.base_sell, call.aggressiveness)
  /\ UNCHANGED <<call, engineVars, acctVars, appVars>>

\* suggest.py lines 56-95: the call returns.
ChooseReturns ==
  /\ call.fn = "_choose_prices_for_item"
  /\ result = <<"pending">>
  /\ result' = _choose_prices_for_item(call.item_id, call.latest, call.one_hour, five_min,
                                        call.price_source, call.latest_max_age_min, call.t)
  /\ UNCHANGED <<call, engineVars, acctVars, appVars>>

NextFn ==
  \/ AdjustReturns
  \/ ChooseReturns

SpecFn == InitFn /\ [][NextFn]_vars

\* ------------------------------------------------------------------- tui.py

\* The items of a list.
Range(seq) == {seq[k] : k \in 1..Len(seq)}

\* The item identifiers of what a call of build_suggestions can return when
\* the feeds are fetched anew before it (tui.py lines 163-164 and 226-227):
\* the items of the universe that pass, each once (suggest.py lines 139-144),
\* in the order of the sort, cut to max(1, top_n) (line 251).
Suggested(top_n, item_ids) ==
  {Truncate(o, top_n) : o \in UNION {Orderings(S) : S \in SUBSET item_ids}}

\* tui.py lines 281-286: the loop over add_candidates; it breaks at the first
\* new item that finds the list full.
RECURSIVE AutoAdd(_, _, _)
AutoAdd(watch, add_candidates, max_watch) ==
  IF add_candidates = <<>> THEN watch
  ELSE IF Head(add_candidates) \in Range(watch)
       THEN AutoAdd(watch, Tail(add_candidates), max_watch)
       ELSE IF Len(watch) >= max_watch THEN watch
       ELSE AutoAdd(Append(watch, Head(add_candidates)), Tail(add_candidates), max_watch)

\* tui.py lines 262-286: watch_ids after the auto-add of one tick.
WatchAfterTick(watch, add_candidates, a) ==
  IF a.auto_add /\ Len(watch) < a.max_watch
  THEN AutoAdd(watch, add_candidates, a.max_watch)
  ELSE watch

\* tui.py lines 162-209: the accountant is chosen and the initial selection
\* made; main returns when the selection is empty (line 204) and ends with
\* the exception when the export raises.
TuiStart ==
  /\ tui_pc = "start"
  /\ TuiSelect
  /\ IF Flipper2Call.raised # "none"
     THEN tui_pc' = "ended" /\ UNCHANGED <<watch_ids, prev>>
     ELSE \E initial \in Suggested(tui_args.top, Items) :
            IF initial = <<>>
            THEN tui_pc' = "ended" /\ UNCHANGED <<watch_ids, prev>>
            ELSE /\ watch_ids' = initial
                 /\ prev' = Range(initial)
                 /\ tui_pc' = "live"
  /\ UNCHANGED <<wall, limits_file, flipper2_dir, fu_path, raised, engineInputs, fnVars, tui_args, raceVars, webVars>>

\* tui.py lines 225-294: one refresh tick.  refreshed is the restricted call
\* of lines 241-259, add_candidates the call of lines 263-280; the rows shown
\* are those of the watch list that have a Suggestion now or had one before.
TuiRefresh ==
  /\ tui_pc = "live"
  /\ TuiSelect
  /\ IF Flipper2Call.raised # "none"
     THEN tui_pc' = "ended" /\ UNCHANGED <<watch_ids, prev>>
     ELSE \E refreshed \in Suggested(Len(watch_ids), Range(watch_ids)),
             add_candidates \in Suggested(tui_args.auto_add_top, Items) :
            LET watch == WatchAfterTick(watch_ids, add_candidates, tui_args)
                id_to_s == Range(refreshed) \cup (Range(watch) \ Range(watch_ids))
            IN  /\ watch_ids' = watch
                /\ prev' = {i \in Range(watch) : i \in id_to_s \cup prev}
                /\ tui_pc' = "live"
  /\ UNCHANGED <<wall, limits_file, flipper2_dir, fu_path, raised, engineInputs, fnVars, tui_args, raceVars, webVars>>

\* tui.py lines 295-296: Ctrl-C ends the loop.
TuiQuit ==
  /\ tui_pc = "live"
  /\ tui_pc' = "ended"
  /\ UNCHANGED <<engineVars, acctVars, fnVars, tui_args, watch_ids, prev, raceVars, webVars>>

\* tui.py lines 148-158: the options; --auto-add is a store_true flag whose
\* default is True, so it is always on.
TuiOptions ==
  {[top |-> t, auto_add |-> TRUE, auto_add_top |-> a, max_watch |-> m] :
     t \in 0..NumItems, a \in 0..NumItems, m \in 0..NumItems}

InitTui ==
  /\ tui_args \in TuiOptions
  /\ tui_pc = "start"
  /\ watch_ids = <<>>
  /\ prev = {}
  /\ RaceIdle
  /\ WebIdle
  /\ EngineIdle
  /\ AcctIdle
  /\ call = [fn |-> "none"]
  /\ result = <<"pending">>

NextTui ==
  \/ TuiStart
  \/ TuiRefresh
  \/ TuiQuit

SpecTui == InitTui /\ [][NextTui]_vars

\* --------------------------------------------- limits.py, two processes

\* The calls that the two processes make: argument tuples as in AppendCalls.
RaceCalls == {<<1, 1, "buy", None>>, <<2, 1, "buy", None>>, <<1, 2, "sell", None>>, <<1, 1, "refund", None>>}

\* limits.py lines 66-76 in process p: the type is checked, the log is loaded
\* and the new event appended to the list in memory.
RaceLoad(p, item_id, qty, type, ts) ==
  /\ procs[p].pc = "start"
  /\ procs' = [procs EXCEPT ![p] =
       IF type \notin {"buy", "sell"}
       THEN [pc |-> "done", state |-> <<>>, raised |-> "ValueError"]
       ELSE [pc |-> "loaded",
             state |-> Append(load_state(limits_file, wall),
                              LimitEvent(IF ts # None THEN ts ELSE wall, item_id, type, qty)),
             raised |-> "none"]]
  /\ UNCHANGED <<engineVars, acctVars, fnVars, tuiVars, webVars>>

\* limits.py line 77 in process p: save_state (lines 52-62) writes the list in
\* memory over the file.
RaceSave(p) ==
  /\ procs[p].pc = "loaded"
  /\ limits_file' = [exists |-> TRUE, events |-> procs[p].state]
  /\ procs' = [procs EXCEPT ![p].pc = "done"]
  /\ UNCHANGED <<wall, flipper2_dir, fu_path, selection, raised, engineVars, fnVars, tuiVars, webVars>>

\* The log before the two calls: missing, holding a record without an item
\* identifier, or holding one or two events of the last hours.
RaceFiles ==
  LimitsFiles \cup
    {[exists |-> TRUE, events |-> es] :
       es \in {<<LimitEvent(Recent, 1, "buy", 1)>>,
               <<LimitEvent(Old, 2, "buy", 1), LimitEvent(Recent, 1, "sell", 1)>>}}

InitRace ==
  /\ procs = [p \in Procs |-> [pc |-> "start", state |-> <<>>, raised |-> "none"]]
  /\ limits_file \in RaceFiles
  /\ wall = StartHour
  /\ flipper2_dir = [exists |-> FALSE, buys |-> <<>>, flips |-> <<>>]
  /\ fu_path = FALSE
  /\ selection = [caller |-> "none", source |-> "none"]
  /\ raised = "none"
  /\ TuiIdle
  /\ WebIdle
  /\ EngineIdle
  /\ call = [fn |-> "none"]
  /\ result = <<"pending">>

NextRace ==
  \/ \E p \in Procs, c \in RaceCalls : RaceLoad(p, c[1], c[2], c[3], c[4])
  \/ \E p \in Procs : RaceSave(p)

SpecRace == InitRace /\ [][NextRace]_vars

\* ------------------------------------------- web/scheduler.py, web/app.py

\* web/models.py lines 36-45: a row of the table alert; active defaults to
\* True.  The other columns play no part in check_alerts_job.
Alert(item_id, direction, target_price) ==
  [item_id |-> item_id, direction |-> direction, target_price |-> target_price, active |-> TRUE]

\* The target price of the alerts, and the prices around it.
AlertTarget == MaxPrice \div 2

\* web/scheduler.py lines 21-22: lp.get("high") or lp.get("low"), 0 standing
\* for every value that line 23 takes for no price.
AlertPrice(lt_feed, item_id) ==
  IF item_id \notin DOMAIN lt_feed THEN 0
  ELSE IF OrZero(lt_feed[item_id].high) # 0 THEN lt_feed[item_id].high
  ELSE OrZero(lt_feed[item_id].low)

\* Triggers with the target itself not counting.
TriggersStrictly(a, price) ==
  /\ price # 0
  /\ \/ a.direction = "below" /\ price < a.target_price
     \/ a.direction = "above" /\ price > a.target_price

\* web/scheduler.py lines 23-30: whether the job deactivates the alert.
Triggers(a, price) ==
  /\ price # 0
  /\ \/ a.direction = "below" /\ price <= a.target_price
     \/ a.direction = "above" /\ price >= a.target_price

\* What fetch_latest_prices returns to the job: no item, or item 1 with or
\* without prices.
WebFeeds ==
  {<<>>} \cup
    {(1 :> LatestRec(p[1], p[2], None, None)) :
       p \in {<<None, None>>, <<0, 0>>, <<AlertTarget - 1, None>>, <<AlertTarget - 1, AlertTarget>>,
              <<AlertTarget - 1, AlertTarget + 1>>, <<AlertTarget + 1, AlertTarget - 1>>}}

\* The directions a request can carry: the query parameter is stored as it
\* comes (web/app.py lines 146 and 163).
Directions == {"below", "above", "Below"}

\* web/app.py lines 142-165, add_alert, for a signed-in user, a price and a
\* known item: a new active row.
AddAlert(item_id, direction, price) ==
  /\ Len(alerts) < MaxAlerts
  /\ alerts' = Append(alerts, Alert(item_id, direction, price))
  /\ UNCHANGED <<web_runs, engineVars, acctVars, fnVars, tuiVars, raceVars>>

\* web/scheduler.py lines 15-34, check_alerts_job: the prices are fetched and
\* every active alert whose price meets its target is made inactive.
CheckAlertsJob ==
  /\ web_runs < MaxRuns
  /\ web_runs' = web_runs + 1
  /\ \E fetched \in WebFeeds :
       /\ latest' = fetched
       /\ alerts' = [k \in 1..Len(alerts) |->
            IF alerts[k].active /\ Triggers(alerts[k], AlertPrice(fetched, alerts[k].item_id))
            THEN [alerts[k] EXCEPT !.active = FALSE]
            ELSE alerts[k]]
  /\ UNCHANGED <<budget_gp, mapping, one_hour, args, remaining_limits, include_item_ids,
                 universe, idx, pc, results, returned, now, now0, invocation,
                 firstReturned, acctVars, fnVars, tuiVars, raceVars>>

InitWeb ==
  /\ alerts = <<>>
  /\ web_runs = 0
  /\ TuiIdle
  /\ RaceIdle
  /\ EngineIdle
  /\ AcctIdle
  /\ call = [fn |-> "none"]
  /\ result = <<"pending">>

NextWeb ==
  \/ \E i \in Items, d \in Directions : AddAlert(i, d, AlertTarget)
  \/ CheckAlertsJob

SpecWeb == InitWeb /\ [][NextWeb]_vars

\* ----------------------------------------------------------------- properties

Returned == {returned[k] : k \in 1..Len(returned)}

\* C1: every returned Suggestion satisfies all hard filters at once: sell
\* price above buy price, quantity at least 1, unit ROI and unit profit at
\* least their floors, and the weaker side's volume at least its floor.
C1_HardFilters ==
  pc = "done" =>
    \A s \in Returned :
      /\ s.sell_price_gp > s.buy_price_gp
      /\ s.quantity >= 1
      /\ s.unit_roi.num * 8 >= args.min_unit_roi * s.unit_roi.den
      /\ s.unit_profit_gp >= args.min_unit_profit_gp
      /\ Min(s.buy_hourly_volume, s.sell_hourly_volume) >= args.min_hourly_volume

C1_Witness ==
  /\ pc = "done"
  /\ args.min_hourly_volume > 0
  /\ args.min_unit_roi > 0
  /\ args.aggressiveness > 0
  /\ \E s \in Returned :
       /\ Min(s.buy_hourly_volume, s.sell_hourly_volume) = args.min_hourly_volume
       /\ s.sell_price_gp < latest[s.item_id].high

\* C2: for every returned Suggestion, quantity times the reported (adjusted)
\* buy price is at most the budget.
C2_WithinBudget ==
  pc = "done" => \A s \in Returned : s.quantity * s.buy_price_gp <= budget_gp

C2_Witness ==
  /\ pc = "done"
  /\ args.price_source = "latest"
  /\ \E s \in Returned :
       /\ s.buy_price_gp > latest[s.item_id].low
       /\ s.quantity = budget_gp \div s.buy_price_gp
       /\ s.quantity < budget_gp \div latest[s.item_id].low

\* C3: a returned Suggestion's quantity is at most the item's known cap and at
\* most the remaining allowance supplied for the item; an item with cap 0 or
\* allowance 0 is not suggested.
C3_WithinCapAndAllowance ==
  pc = "done" =>
    /\ \A s \in Returned :
         /\ (s.item_id \in DOMAIN mapping /\ mapping[s.item_id].buy_limit # None)
              => s.quantity <= mapping[s.item_id].buy_limit
         /\ s.item_id \in DOMAIN remaining_limits
              => s.quantity <= remaining_limits[s.item_id]
    /\ \A i \in Items :
         \/ (i \in DOMAIN mapping /\ mapping[i].buy_limit = 0)
         \/ (i \in DOMAIN remaining_limits /\ remaining_limits[i] = 0)
         => \A s \in Returned : s.item_id # i

C3_Witness ==
  /\ pc = "done"
  /\ \E s \in Returned :
       /\ s.item_id \in DOMAIN mapping
       /\ s.item_id \in DOMAIN remaining_limits
       /\ mapping[s.item_id].buy_limit # None
       /\ s.quantity = remaining_limits[s.item_id]
       /\ s.quantity < mapping[s.item_id].buy_limit
       /\ (s.quantity + 1) * s.buy_price_gp <= budget_gp

SameElements(a, b) ==
  Len(a) = Len(b) /\ {a[k] : k \in 1..Len(a)} = {b[k] : k \in 1..Len(b)}

\* C4: the step that returns leaves the survivors ranked by descending
\* (profit_per_hour, total_profit, unit_roi) and returns exactly their first
\* max(1, top_n): no survivor that was cut has a greater key than one returned.
C4_RankedAndTruncated ==
  [][(pc = "loop" /\ pc' = "done") =>
       /\ SameElements(results', results)
       /\ \A i, j \in 1..Len(results') : i < j => ~KeyGreater(results'[j], results'[i])
       /\ Len(returned') = Min(Len(results), Max(1, args.top_n))
       /\ \A k \in 1..Len(returned') : returned'[k] = results'[k]
       /\ \A c \in (Len(returned') + 1)..Len(results') : \A k \in 1..Len(returned') :
            ~KeyGreater(results'[c], returned'[k])]_vars

C4_Witness ==
  /\ pc = "done"
  /\ Len(returned) = 1
  /\ Len(results) = 2
  /\ KeyGreater(returned[1], results[2])
  /\ returned[1].item_id = universe[Len(universe)]

\* C5: the output does not depend on the order in which the items are
\* iterated: every iteration order of the same universe returns the same list.
C5_OrderIndependent ==
  (pc = "done" /\ now = now0) =>
    \A o \in Orderings(UniverseSet(one_hour, latest, include_item_ids)) :
      returned = build_suggestions(o, now0)

\* C6: two invocations on the same inputs, the wall clock held constant,
\* return identical lists.
C6_Deterministic ==
  (invocation = 2 /\ pc = "done" /\ now = now0) => returned = firstReturned

C6_Witness ==
  /\ invocation = 2
  /\ pc = "done"
  /\ now = now0
  /\ args.fresh_minutes > 0
  /\ Len(returned) >= 2

\* The purchases a source holds, as <<item, timestamp, quantity>>: the buy
\* events of the local log, and the entries of the export that are buys.
RECURSIVE LogPurchases(_)
LogPurchases(events) ==
  IF events = <<>> THEN <<>>
  ELSE (IF Head(events).type = "buy"
        THEN <<<<Head(events).item_id, Head(events).ts, Head(events).qty>>>>
        ELSE <<>>) \o LogPurchases(Tail(events))

RECURSIVE ExportPurchases(_, _)
ExportPurchases(buys, flips) ==
  IF buys # <<>>
  THEN <<<<Head(buys).itemId, Head(buys).ts, Head(buys).quantity>>>> \o ExportPurchases(Tail(buys), flips)
  ELSE IF flips # <<>>
  THEN (IF FlipCounts(Head(flips))
        THEN <<<<Head(flips).e.itemId, Head(flips).e.ts, Head(flips).e.quantity>>>>
        ELSE <<>>) \o ExportPurchases(buys, Tail(flips))
  ELSE <<>>

\* The sum of the quantities of the purchases of an item made at or after the
\* cutoff, a timestamp in milliseconds read as the second it stands for.
RECURSIVE BoughtInWindow(_, _, _)
BoughtInWindow(purchases, item_id, cutoff) ==
  IF purchases = <<>> THEN 0
  ELSE (IF Head(purchases)[1] = item_id /\ _normalize_ts(Head(purchases)[2]) >= cutoff
        THEN Head(purchases)[3] ELSE 0) + BoughtInWindow(Tail(purchases), item_id, cutoff)

ContractMap(purchases) ==
  [i \in Capped(BuyLimits(mapping)) |->
     Max(0, mapping[i].buy_limit - BoughtInWindow(purchases, i, wall - FOUR_HOURS_SEC))]

\* C7: for any log of purchase events and any caps, each accountant returns
\* for every item with a cap the cap less the sum of the quantities bought in
\* the last four hours, floored at 0, and no entry for an item without a cap.
C7_WindowedAllowance ==
  /\ LocalMap = ContractMap(LogPurchases(limits_file.events))
  /\ flipper2_dir.exists =>
       Flipper2Map = ContractMap(ExportPurchases(flipper2_dir.buys, flipper2_dir.flips))

\* The log holds n events, all the same buy, recorded at the present time for
\* an item with a cap.
SameBuyRecorded(n) ==
  /\ Len(limits_file.events) = n
  /\ \A k \in 1..n :
       /\ limits_file.events[k] = limits_file.events[1]
       /\ limits_file.events[k].type = "buy"
       /\ limits_file.events[k].ts = wall
       /\ limits_file.events[k].item_id \in Capped(BuyLimits(mapping))

\* C8 as stated: from an empty log, one recorded buy of q of an item with cap
\* C leaves max(0, C - q), and the same buy recorded again max(0, C - 2q).
C8_RoundTripAnyQuantity ==
  \A n \in 1..2 :
    SameBuyRecorded(n) =>
      LocalMap[limits_file.events[1].item_id] =
        Max(0, mapping[limits_file.events[1].item_id].buy_limit - n * limits_file.events[1].qty)

\* C8: from an empty log, one recorded buy of q >= 0 of an item with cap C
\* leaves max(0, C - q), and the same buy recorded again max(0, C - 2q).
C8_RoundTrip ==
  \A n \in 1..2 :
    (SameBuyRecorded(n) /\ limits_file.events[1].qty >= 0) =>
      LocalMap[limits_file.events[1].item_id] =
        Max(0, mapping[limits_file.events[1].item_id].buy_limit - n * limits_file.events[1].qty)

C8_Witness ==
  /\ SameBuyRecorded(2)
  /\ limits_file.events[1].qty > 0
  /\ mapping[limits_file.events[1].item_id].buy_limit < 2 * limits_file.events[1].qty
  /\ LocalMap[limits_file.events[1].item_id] = 0

\* C9: given the same purchase events, an empty or a missing source included,
\* and the same caps, the two accountants return the same map.
C9_SameMap ==
  LogPurchases(limits_file.events) = ExportPurchases(flipper2_dir.buys, flipper2_dir.flips)
    => LocalMap = Flipper2Map

\* C10: whichever sources are available, the caller's selection ends with one
\* source chosen, the export before the local log, and with the engine handed
\* the map of that source alone.
C10_SelectionCompletes ==
  [][(selection' # selection \/ remaining_limits' # remaining_limits) =>
       /\ selection'.source \in {"flipper2", "local"}
       /\ remaining_limits' = (IF selection'.source = "flipper2" THEN Flipper2Map ELSE LocalMap)
       /\ (flipper2_dir.exists /\ Capped(BuyLimits(mapping)) # {}) => selection'.source = "flipper2"]_vars

\* The same timestamp supplied in milliseconds.
InMillis(ts) == IF ts = None \/ ts > TS_MS_THRESHOLD THEN ts ELSE ts * MS_PER_SEC

LogInMillis(file) ==
  [exists |-> file.exists,
   events |-> [k \in 1..Len(file.events) |->
                 [file.events[k] EXCEPT !.ts = InMillis(file.events[k].ts)]]]

ExportInMillis(dir) ==
  [exists |-> dir.exists,
   buys |-> [k \in 1..Len(dir.buys) |-> [dir.buys[k] EXCEPT !.ts = InMillis(dir.buys[k].ts)]],
   flips |-> [k \in 1..Len(dir.flips) |->
                [dir.flips[k] EXCEPT !.e = [dir.flips[k].e EXCEPT !.ts = InMillis(dir.flips[k].e.ts)]]]]

\* C11: in each accountant an event counts the same whether its timestamp
\* is supplied in seconds or in milliseconds: the map computed from a source
\* is the map computed from the same source with every timestamp in
\* milliseconds.
C11_TimestampUnits ==
  /\ compute_remaining_limits(LogInMillis(limits_file), BuyLimits(mapping), wall) = LocalMap
  /\ compute_remaining_from_flipper2(ExportInMillis(flipper2_dir), BuyLimits(mapping), wall) = Flipper2Call

\* The inputs of the worked example: catalog {1: cap 50}, instantaneous feed
\* {1: buy 100, sell 120, both timestamps = now}, windowed feed {1: both
\* volumes 1000}, budget 10,000, no floors, aggressiveness 0, liquidity
\* fraction 1.0, minimum hourly volume 0, maximum fill time 10 hours, prices
\* from the instantaneous feed.
EndToEndInputs ==
  /\ DOMAIN mapping = {1} /\ mapping[1].buy_limit = 50
  /\ DOMAIN latest = {1} /\ latest[1] = LatestRec(100, 120, now0, now0)
  /\ DOMAIN one_hour = {1}
  /\ one_hour[1].lowPriceVolume = 1000 /\ one_hour[1].highPriceVolume = 1000
  /\ budget_gp = 10000
  /\ remaining_limits = <<>>
  /\ ~include_item_ids.given
  /\ args.min_unit_roi = 0 /\ args.min_unit_profit_gp = 0 /\ args.aggressiveness = 0
  /\ args.liquidity_fraction = 4 /\ args.min_hourly_volume = 0 /\ args.max_fill_hours = 20
  /\ args.price_source = "latest"

\* C12: on the inputs of the worked example build_suggestions returns exactly
\* one Suggestion: buy 100, sell 120, quantity 50, total profit 900, unit
\* profit 18, unit ROI 0.18.
C12_EndToEnd ==
  (pc = "done" /\ now = now0 /\ EndToEndInputs) =>
    /\ Len(returned) = 1
    /\ returned[1].item_id = 1
    /\ returned[1].buy_price_gp = 100
    /\ returned[1].sell_price_gp = 120
    /\ returned[1].quantity = 50
    /\ returned[1].total_profit_gp = 900
    /\ returned[1].unit_profit_gp = 18
    /\ FracEq(returned[1].unit_roi, Frac(18, 100))

C12_Witness ==
  /\ pc = "done"
  /\ now = now0
  /\ EndToEndInputs
  /\ args.fresh_minutes > 0
  /\ Len(returned) = 1
  /\ returned[1].quantity = mapping[1].buy_limit

\* C13: for every base pair with sell > buy > 0 and every aggressiveness,
\* _adjust_prices_for_aggressiveness returns (buy + d, sell - d), d being a
\* quarter of the spread times the aggressiveness clamped into [0, 1],
\* rounded toward zero, or the unadjusted pair; the returned sell price is
\* above the returned buy price.
C13_AdjustKeepsSpread ==
  (/\ call.fn = "_adjust_prices_for_aggressiveness"
   /\ result # <<"pending">>
   /\ call.base_sell > call.base_buy
   /\ call.base_buy > 0) =>
    LET g == IF call.aggressiveness < 0 THEN 0
             ELSE IF call.aggressiveness > 4 THEN 4 ELSE call.aggressiveness
        spread == call.base_sell - call.base_buy
    IN  /\ result[2] > result[1]
        /\ \E d \in 0..spread :
             /\ 16 * d <= g * spread
             /\ g * spread < 16 * (d + 1)
             /\ \/ result = <<call.base_buy + d, call.base_sell - d>>
                \/ /\ (call.base_sell - d) <= (call.base_buy + d)
                   /\ result = <<call.base_buy, call.base_sell>>

C13_Witness ==
  /\ call.fn = "_adjust_prices_for_aggressiveness"
  /\ call.aggressiveness > 4
  /\ call.base_buy > 0
  /\ result # <<"pending">>
  /\ result[1] > call.base_buy
  /\ result[2] < call.base_sell
  /\ result[2] > result[1]

\* The call of the price selector has returned.
Chose(price_source) ==
  /\ call.fn = "_choose_prices_for_item"
  /\ call.price_source = price_source
  /\ result # <<"pending">>

\* A field of a record as a number: 0 when the field is absent.
Field(x) == IF x = None THEN 0 ELSE x

WindowedPrices == <<Field(call.one_hour[call.item_id].avgLowPrice), Field(call.one_hour[call.item_id].avgHighPrice)>>
InstantPrices == <<Field(call.latest[call.item_id].low), Field(call.latest[call.item_id].high)>>
WindowedVolumes ==
  IF call.item_id \in DOMAIN call.one_hour
  THEN <<Field(call.one_hour[call.item_id].lowPriceVolume), Field(call.one_hour[call.item_id].highPriceVolume)>>
  ELSE <<0, 0>>

\* C14: under the windowed policy the selector returns the windowed record's
\* average prices and its two volumes, and none when that record is absent;
\* under the instantaneous policy it returns the instantaneous record's
\* prices with the windowed record's volumes, zero when there is none, and
\* none when the instantaneous record is absent.
C14_NonHybridPolicies ==
  /\ Chose("1h") =>
       IF call.item_id \in DOMAIN call.one_hour
       THEN result = WindowedPrices \o WindowedVolumes
       ELSE result = <<>>
  /\ Chose("latest") =>
       IF call.item_id \in DOMAIN call.latest
       THEN result = InstantPrices \o WindowedVolumes
       ELSE result = <<>>

C14_Witness ==
  /\ Chose("latest")
  /\ call.item_id \in DOMAIN call.latest
  /\ call.item_id \notin DOMAIN call.one_hour
  /\ call.latest[call.item_id].lowTime = None
  /\ result = <<100, 120, 0, 0>>

\* Both timestamps of the instantaneous record are within the threshold, in
\* minutes, of the time of the call.
BothWithinThreshold ==
  /\ call.item_id \in DOMAIN call.latest
  /\ \A ts \in {call.latest[call.item_id].lowTime, call.latest[call.item_id].highTime} :
       ts # None /\ call.t - ts <= 60 * call.latest_max_age_min

\* C15: under the hybrid policy the instantaneous record's prices are
\* returned exactly when both its timestamps are within the threshold of now;
\* otherwise the windowed record's averages when it is present; otherwise
\* none.  The volumes are the windowed record's whenever it is present.
C15_HybridPolicy ==
  Chose("hybrid") =>
    /\ BothWithinThreshold => result = InstantPrices \o WindowedVolumes
    /\ (~BothWithinThreshold /\ call.item_id \in DOMAIN call.one_hour) =>
         result = WindowedPrices \o WindowedVolumes
    /\ (~BothWithinThreshold /\ call.item_id \notin DOMAIN call.one_hour) => result = <<>>

C15_Witness ==
  /\ Chose("hybrid")
  /\ call.item_id \in DOMAIN call.latest
  /\ call.latest[call.item_id].lowTime = call.t - 60 * call.latest_max_age_min
  /\ call.latest[call.item_id].highTime = call.t - 60 * call.latest_max_age_min - 1
  /\ call.latest_max_age_min > 0
  /\ result = <<90, 150, 4, 8>>

\* C16: a call of append_event with a kind other than 'buy' and 'sell' fails
\* with an error and leaves the durable log exactly as it was.
C16_RejectedKindLeavesLog ==
  [][raised' = "ValueError" => limits_file' = limits_file]_vars

\* A rejected call has been made on a log that holds an event.
C16_Witness ==
  /\ raised = "ValueError"
  /\ limits_file.exists
  /\ Len(limits_file.events) >= 1

\* A record of the log or of the export that has what a purchase event needs:
\* an item identifier and, for a flip that is one side of a trade, a side
\* that is a string.
WellFormedEvent(e) == e.item_id # None
WellFormedEntry(e) == e.itemId # None
WellFormedFlip(f) == WellFormedEntry(f.e) /\ f.side # NotAString

\* The sources with their malformed records taken out.
WellFormedLog ==
  [exists |-> limits_file.exists, events |-> SelectSeq(limits_file.events, WellFormedEvent)]
WellFormedExport ==
  [exists |-> flipper2_dir.exists,
   buys |-> SelectSeq(flipper2_dir.buys, WellFormedEntry),
   flips |-> SelectSeq(flipper2_dir.flips, WellFormedFlip)]

\* C17: in both accountants a malformed record is skipped on its own: the
\* computation ends with a map, the one the well-formed records of the same
\* batch give.
C17_MalformedSkipped ==
  /\ LocalMap = compute_remaining_limits(WellFormedLog, BuyLimits(mapping), wall)
  /\ Flipper2Call.raised = "none"
  /\ Flipper2Map = compute_remaining_from_flipper2(WellFormedExport, BuyLimits(mapping), wall).value

\* C18: within one invocation every freshness check and every age check of
\* the hybrid selector compares against one value of now, also when the
\* clock advances during the pass: the pass returns what a pass with the
\* clock held at one of the times it ran through returns.
C18_NowReadOnce ==
  (pc = "done" /\ invocation = 1) =>
    \E n \in 0..MaxTicks : returned = build_suggestions(universe, now0 + n * TickSec)

\* C19: for every Suggestion returned the combined fill time, the buy fill
\* hours plus the sell fill hours, is at most max_fill_hours.
C19_CombinedFillTime ==
  \A s \in Returned : FracLeq(s.expected_fill_hours, Frac(args.max_fill_hours, 2))

\* What the loop of an unrestricted invocation on the same inputs appends to
\* results.
UnrestrictedResults ==
  LoopResults(CHOOSE o \in Orderings(UniverseSet(one_hour, latest, [given |-> FALSE, ids |-> {}])) : TRUE,
              now0)

\* C20: when include_item_ids is supplied every returned Suggestion is of an
\* item of that set, and, before the truncation, the items of the set that
\* have a Suggestion and the fields of each Suggestion are those of an
\* unrestricted invocation on the same inputs.
C20_RestrictedUniverse ==
  (pc = "done" /\ now = now0 /\ include_item_ids.given) =>
    /\ \A s \in Returned : s.item_id \in include_item_ids.ids
    /\ {results[k] : k \in 1..Len(results)} =
         {UnrestrictedResults[k] :
            k \in {j \in 1..Len(UnrestrictedResults) :
                     UnrestrictedResults[j].item_id \in include_item_ids.ids}}

\* A restricted pass has returned a Suggestion and left out an item for which
\* the unrestricted pass has one.
C20_Witness ==
  /\ pc = "done"
  /\ now = now0
  /\ include_item_ids.given
  /\ Len(returned) >= 1
  /\ Len(UnrestrictedResults) > Len(results)

\* The intermediate caps of a Suggestion, each rounded toward zero: budget /
\* buy price, the purchase cap if known, the remaining allowance if supplied,
\* liquidity fraction x volume and max fill hours x volume on each side.
IntermediateCaps(s) ==
  {budget_gp \div s.buy_price_gp,
   (s.buy_hourly_volume * args.liquidity_fraction) \div 4,
   (s.sell_hourly_volume * args.liquidity_fraction) \div 4,
   (s.buy_hourly_volume * args.max_fill_hours) \div 2,
   (s.sell_hourly_volume * args.max_fill_hours) \div 2}
    \cup (IF s.buy_limit # None THEN {s.buy_limit} ELSE {})
    \cup (IF s.remaining_limit # None THEN {s.remaining_limit} ELSE {})

\* C21: an item is emitted only if every intermediate cap is at least 1, and
\* its quantity is the minimum of the caps.
C21_QuantityIsMinimumOfCaps ==
  \A s \in Returned :
    /\ \A c \in IntermediateCaps(s) : c >= 1
    /\ s.quantity \in IntermediateCaps(s)
    /\ \A c \in IntermediateCaps(s) : s.quantity <= c

\* The tax on one unit sold at a price: 2% of it rounded down, at most the cap.
UnitTax(sell_price) ==
  IF (sell_price * 2) \div 100 < GE_TAX_CAP THEN (sell_price * 2) \div 100 ELSE GE_TAX_CAP

\* C22: for every returned Suggestion the total profit is quantity x sell
\* price - quantity x unit tax - quantity x buy price, the unit profit is the
\* total profit floor-divided by the quantity, and the unit ROI is the unit
\* profit over the buy price.
C22_ProfitComputation ==
  \A s \in Returned :
    /\ s.total_profit_gp =
         s.quantity * s.sell_price_gp - s.quantity * UnitTax(s.sell_price_gp)
           - s.quantity * s.buy_price_gp
    /\ s.unit_profit_gp = s.total_profit_gp \div s.quantity
    /\ s.unit_roi = Frac(s.unit_profit_gp, s.buy_price_gp)

\* A Suggestion whose unit tax is the cap has been returned.
C22_Witness ==
  \E s \in Returned :
    /\ (s.sell_price_gp * 2) \div 100 > GE_TAX_CAP
    /\ s.total_profit_gp = s.sell_price_gp - GE_TAX_CAP - s.buy_price_gp

\* A timestamp of the instantaneous feed is within fresh_minutes of the time
\* at which the pass ran.
WithinFreshMinutes(ts) == ts # None /\ now0 - ts <= 60 * args.fresh_minutes

\* What the pass appends to results when no item is held back for its
\* timestamps: the Suggestion of every item of the universe that has one.
ResultsWithoutFreshness ==
  {ItemSuggestion(i, _choose_prices_for_item(i, latest, one_hour, five_min, args.price_source, args.latest_max_age_min, now0), budget_gp, mapping, remaining_limits, args)[1] :
     i \in {j \in UniverseSet(one_hour, latest, include_item_ids) :
              /\ _choose_prices_for_item(j, latest, one_hour, five_min, args.price_source, args.latest_max_age_min, now0) # <<>>
              /\ ItemSuggestion(j, _choose_prices_for_item(j, latest, one_hour, five_min, args.price_source, args.latest_max_age_min, now0), budget_gp, mapping, remaining_limits, args) # <<>>}}

\* C23: when fresh_minutes > 0 the item of every returned Suggestion has an
\* instantaneous record with both timestamps within fresh_minutes of now
\* under policy "both", and with at least one of them so under policy "any";
\* when fresh_minutes <= 0 the filter holds no item back.
C23_FreshnessFilter ==
  (pc = "done" /\ now = now0) =>
    /\ args.fresh_minutes > 0 =>
         \A s \in Returned :
           /\ s.item_id \in DOMAIN latest
           /\ args.fresh_policy = "both" =>
                /\ WithinFreshMinutes(latest[s.item_id].lowTime)
                /\ WithinFreshMinutes(latest[s.item_id].highTime)
           /\ args.fresh_policy = "any" =>
                \/ WithinFreshMinutes(latest[s.item_id].lowTime)
                \/ WithinFreshMinutes(latest[s.item_id].highTime)
    /\ args.fresh_minutes <= 0 =>
         {results[k] : k \in 1..Len(results)} = ResultsWithoutFreshness

\* Under policy "any" an item has been returned one of whose timestamps is
\* not within fresh_minutes.
C23_Witness ==
  /\ pc = "done"
  /\ now = now0
  /\ args.fresh_minutes > 0
  /\ args.fresh_policy = "any"
  /\ \E s \in Returned :
       ~(WithinFreshMinutes(latest[s.item_id].lowTime) /\ WithinFreshMinutes(latest[s.item_id].highTime))

Appended_results == {results[k] : k \in 1..Len(results)}

\* C25: every item that reaches the fill-time computation has a buy-side and
\* a sell-side volume of at least 1, so its expected fill hours are positive
\* and its profit per hour is the total profit over the expected fill hours,
\* never the total profit itself.
C25_NoZeroVolume ==
  \A s \in Appended_results :
    /\ s.buy_hourly_volume >= 1
    /\ s.sell_hourly_volume >= 1
    /\ s.expected_fill_hours = Frac(s.quantity * (s.buy_hourly_volume + s.sell_hourly_volume), s.buy_hourly_volume * s.sell_hourly_volume)
    /\ s.expected_fill_hours.num > 0
    /\ s.profit_per_hour_gp = Frac(s.total_profit_gp * s.expected_fill_hours.den, s.expected_fill_hours.num)

\* An item traded once an hour on each side has reached the fill-time
\* computation with no volume floor asked for.
C25_Witness ==
  /\ args.min_hourly_volume = 0
  /\ \E s \in Appended_results : s.buy_hourly_volume = 1 /\ s.sell_hourly_volume = 1

\* C28: for every Suggestion returned the total profit is an exact multiple
\* of the quantity: the unit profit times the quantity is the total profit,
\* and the unit profit is the sell price less the unit tax less the buy price.
C28_ExactUnitProfit ==
  \A s \in Returned :
    /\ s.unit_profit_gp * s.quantity = s.total_profit_gp
    /\ s.total_profit_gp % s.quantity = 0
    /\ s.unit_profit_gp = s.sell_price_gp - UnitTax(s.sell_price_gp) - s.buy_price_gp

\* A Suggestion of several units has been returned whose sell price is taxed
\* and is not a multiple of 50, so that the tax was rounded down.
C28_Witness ==
  \E s \in Returned :
    /\ s.quantity >= 2
    /\ UnitTax(s.sell_price_gp) > 0
    /\ s.sell_price_gp % 50 # 0

\* The events recorded in the log before a call, and those of them whose
\* timestamp is within twice the accounting window of the time of the call.
RecordedEvents == IF limits_file.exists THEN Converted(limits_file.events) ELSE <<>>
WithinTwiceWindow(e) == e.ts >= wall - (2 * FOUR_HOURS_SEC)
KeptEvents == SelectSeq(RecordedEvents, WithinTwiceWindow)

\* The recorded events a call drops.
DroppedEvents == SelectSeq(RecordedEvents, LAMBDA e : ~WithinTwiceWindow(e))

\* C26: every call of append_event that writes the log leaves the recorded
\* events whose timestamp is within 8 hours of now in it, unchanged and in
\* their order, and adds exactly one event, the new one, at the end; the
\* events dropped add nothing to what compute_remaining_limits counts as used
\* for any item, now or later, so its result is the same without them.
C26_AppendOnly ==
  [][limits_file' # limits_file =>
       LET kept == KeptEvents
           saved == limits_file'.events
           dropped == DroppedEvents
       IN  /\ limits_file'.exists
           /\ Len(saved) = Len(kept) + 1
           /\ SubSeq(saved, 1, Len(kept)) = kept
           /\ \E c \in AppendCalls :
                saved[Len(saved)] = LimitEvent(IF c[4] # None THEN c[4] ELSE wall, c[1], c[3], c[2])
           /\ \A k \in 1..Len(dropped), i \in Items, n \in 0..MaxTicks :
                UsedByEvent(dropped[k], i, wall + n * TickHours - FOUR_HOURS_SEC) = 0]_vars

\* After the clock moved on, a call has added an event behind one recorded
\* five hours earlier.
C26_Witness ==
  /\ wall = StartHour + TickHours
  /\ Len(limits_file.events) = 2
  /\ limits_file.events[1].ts = StartHour
  /\ limits_file.events[2].ts = wall

\* watch is the beginning of watch_after: nothing was removed or moved, items
\* were only added at the end.
OnlyAppended(watch, watch_after) ==
  /\ Len(watch) <= Len(watch_after)
  /\ SubSeq(watch_after, 1, Len(watch)) = watch

\* C27: in the live view, after the initial selection and after every refresh
\* tick, the watch list holds at most max_watch items, and every step only
\* appends to it: an item once in the list stays in it.
C27_WatchListBounded ==
  /\ [](tui_pc = "live" => Len(watch_ids) <= tui_args.max_watch)
  /\ [][OnlyAppended(watch_ids, watch_ids')]_vars

\* How many times an event occurs in a list of events.
RECURSIVE Occurrences(_, _)
Occurrences(events, e) ==
  IF events = <<>> THEN 0
  ELSE (IF Head(events) = e THEN 1 ELSE 0) + Occurrences(Tail(events), e)

\* The processes whose call of append_event has completed without raising,
\* and the event each of them recorded.
Completed == {p \in Procs : procs[p].pc = "done" /\ procs[p].raised = "none"}
RecordedBy(p) == procs[p].state[Len(procs[p].state)]

\* C29: once the two concurrent calls of append_event have completed, the
\* event of each is in the log, as many times as it was recorded, whatever
\* the interleaving of their load and save steps.
C29_BothRecorded ==
  (\A p \in Procs : procs[p].pc = "done") =>
    \A p \in Completed :
      Occurrences(limits_file.events, RecordedBy(p))
        >= Cardinality({q \in Completed : RecordedBy(q) = RecordedBy(p)})

\* The price the feed has for the item of an alert meets the alert's target:
\* the feed has the item, its high price, or failing that its low price, is
\* there and not 0, and it is at or below the target of a "below" alert or at
\* or above the target of an "above" alert.
PriceMeetsTarget(a, lt_feed) ==
  /\ a.item_id \in DOMAIN lt_feed
  /\ LET lp == lt_feed[a.item_id]
         price == IF lp.high \notin {None, 0} THEN lp.high ELSE lp.low
     IN  /\ price \notin {None, 0}
         /\ \/ a.direction = "below" /\ price <= a.target_price
            \/ a.direction = "above" /\ price >= a.target_price

\* C30: in every run of check_alerts_job an active alert becomes inactive
\* exactly when the fetched price of its item meets its target; an alert of
\* another direction or without a price stays active; outside a run no alert
\* changes; and an inactive alert is never active again.
C30_AlertLifecycle ==
  [][/\ Len(alerts') >= Len(alerts)
     /\ \A k \in 1..Len(alerts) :
          /\ ~alerts[k].active => ~alerts'[k].active
          /\ (alerts[k].active /\ web_runs' # web_runs) =>
               (~alerts'[k].active <=> PriceMeetsTarget(alerts[k], latest'))
          /\ web_runs' = web_runs => alerts'[k] = alerts[k]
          /\ [alerts'[k] EXCEPT !.active = TRUE] = [alerts[k] EXCEPT !.active = TRUE]]_vars

\* A run has deactivated an alert and left active an older alert for the same
\* item whose direction is neither "below" nor "above".
C30_Witness ==
  /\ web_runs > 0
  /\ \E k \in 1..Len(alerts), j \in 1..Len(alerts) :
       /\ j < k
       /\ ~alerts[k].active
       /\ alerts[j].active
       /\ alerts[j].item_id = alerts[k].item_id
       /\ alerts[j].direction \notin {"below", "above"}

====
